---- MODULE Spec2Model ----
(***************************************************************************)
(* CHSH inequality demonstration (chsh_inequality.py).                     *)
(*                                                                         *)
(* A caller builds the four CHSH circuits, submits them to a device and    *)
(* post-processes the four outcome distributions:                          *)
(*   create_chsh_inequality_circuits -> run_chsh_inequality ->             *)
(*   get_chsh_results (possibly called again on the same tasks).           *)
(*                                                                         *)
(* Numbers.  Angles are integers in units of pi/8.  A probability is an    *)
(* integer numerator over the denominator Den(shots): with shots > 0 the   *)
(* device reports relative frequencies k/shots, with shots = 0 it reports  *)
(* the exact probabilities, computed here in fixed point with unit         *)
(* 1/Scale.  Expectation values and the statistic carry the same           *)
(* denominator.                                                            *)
(***************************************************************************)
EXTENDS Integers, Sequences, FiniteSets

\* ------------------------------------------------------------------ bounds
\* Largest angle argument tried, in units of pi/8.
MaxAngle == 3
\* Largest shot count tried (0 is exact execution).
MaxShots == 1
\* How many times get_chsh_results is called on the same tasks.
MaxCalls == 2

\* --------------------------------------------------------------- constants
\* Default arguments of create_chsh_inequality_circuits, in units of pi/8.
DefaultQubit0 == 0
DefaultQubit1 == 1
DefaultA == 0
DefaultA_ == 2
DefaultB == 1
DefaultB_ == 3
\* The classical bound the statistic is compared with.
ClassicalBound == 2
\* cos(k*pi/16) in fixed point, k = 0..8 (index k+1).
CosTable == <<10000, 9808, 9239, 8315, 7071, 5556, 3827, 1951, 0>>
\* Fixed-point unit of the exact (shots = 0) amplitudes and probabilities: cos(0).
Scale == CosTable[1]
\* 1/sqrt(2) = cos(pi/4) in units of 1/Scale.
InvSqrt2 == CosTable[5]

Qubits == {0, 1}
NoValue == <<>>
\* An exception that reached the caller: which call raised, and for which item.
Exc(k, i) == [kind |-> k, at |-> i]
NoExc == Exc("none", 0)

VARIABLES
    pc,          \* position of the caller: start, run, submitted, retrieve, done, raised
    args,        \* arguments of create_chsh_inequality_circuits
    shots,       \* shots argument of run_chsh_inequality
    circuits,    \* list returned by create_chsh_inequality_circuits
    basis_calls, \* the calls of bell_singlet_rotated_basis, in order
    run_log,     \* the calls of device.run, in order
    tasks,       \* the task handles created by the device, in order
    ret_tasks,   \* list returned by run_chsh_inequality (NoValue before it returns)
    call,        \* number of calls of get_chsh_results started
    verbose,     \* verbose argument of the current get_chsh_results call
    result_log,  \* indices of the tasks whose result() the current call retrieved
    results,     \* local `results` of the current get_chsh_results call
    out,         \* lines printed by the current get_chsh_results call
    ret,         \* value returned by the current call (NoValue before it returns)
    prev_ret,    \* value returned by the previous call (NoValue if none)
    prev_out,    \* lines printed by the previous call
    exc          \* the exception that reached the caller: none, run, result

vars == <<pc, args, shots, circuits, basis_calls, run_log, tasks, ret_tasks,
          call, verbose, result_log, results, out, ret, prev_ret, prev_out,
          exc>>

\* ------------------------------------------------------- circuit building
Instr(g, t, ang) == [gate |-> g, target |-> t, angle |-> ang]

\* Circuit().h(qubit0).cnot(qubit0, qubit1)
bell_singlet(qubit0, qubit1) ==
    [instrs |-> << Instr("h", <<qubit0>>, 0), Instr("cnot", <<qubit0, qubit1>>, 0) >>,
     result_types |-> <<>>]

\* circ.h(q), circ.ry(q, angle), circ.probability(): append to the circuit.
h(circ, q) == [circ EXCEPT !.instrs = Append(@, Instr("h", <<q>>, 0))]
ry(circ, q, ang) == [circ EXCEPT !.instrs = Append(@, Instr("ry", <<q>>, ang))]
probability(circ) == [circ EXCEPT !.result_types = Append(@, "probability")]

bell_singlet_rotated_basis(qubit0, qubit1, rotation0, rotation1) ==
    LET circ == bell_singlet(qubit0, qubit1)
        rot  == IF rotation0 # 0 THEN ry(circ, qubit0, rotation0) ELSE circ
    IN  probability(rot)

\* Mutant: the two middle circuits returned in the other order.
create_chsh_inequality_circuits_swapped(qubit0, qubit1, a, a_, b, b_) ==
    LET circ_ab   == bell_singlet_rotated_basis(qubit0, qubit1, a, b)
        circ_ab_  == h(bell_singlet_rotated_basis(qubit0, qubit1, a, b_), qubit1)
        circ_a_b  == h(bell_singlet_rotated_basis(qubit0, qubit1, a_, b), qubit0)
        circ_a_b_ == h(h(bell_singlet_rotated_basis(qubit0, qubit1, a_, b_), qubit0), qubit1)
    IN  <<circ_ab, circ_a_b, circ_ab_, circ_a_b_>>

create_chsh_inequality_circuits(qubit0, qubit1, a, a_, b, b_) ==
    LET circ_ab   == bell_singlet_rotated_basis(qubit0, qubit1, a, b)
        circ_ab_  == h(bell_singlet_rotated_basis(qubit0, qubit1, a, b_), qubit1)
        circ_a_b  == h(bell_singlet_rotated_basis(qubit0, qubit1, a_, b), qubit0)
        circ_a_b_ == h(h(bell_singlet_rotated_basis(qubit0, qubit1, a_, b_), qubit0), qubit1)
    IN  <<circ_ab, circ_ab_, circ_a_b, circ_a_b_>>

\* The (rotation0, rotation1) arguments of the four bell_singlet_rotated_basis calls.
BasisCalls(a, a_, b, b_) ==
    << <<a, b>>, <<a, b_>>, <<a_, b>>, <<a_, b_>> >>

\* ------------------------------------------------ exact execution (shots = 0)
\* A two-qubit register is the vector of its four real amplitudes, in units of
\* 1/Scale, indexed 1..4 by the outcomes 00, 01, 10, 11 (qubit 0 first).  All the
\* gates used are real matrices.
Bit(k, q) == IF q = 0 THEN k \div 2 ELSE k % 2
Flip(k, q) == IF q = 0 THEN (k + 2) % 4 ELSE (IF k % 2 = 0 THEN k + 1 ELSE k - 1)
Amp0(v, k, q) == v[(IF Bit(k, q) = 0 THEN k ELSE Flip(k, q)) + 1]
Amp1(v, k, q) == v[(IF Bit(k, q) = 1 THEN k ELSE Flip(k, q)) + 1]
\* Rounded fixed-point product.
FxMul(x, y) == (x * y + Scale \div 2) \div Scale
Cos16(k) == CosTable[k + 1]
Sin16(k) == CosTable[(8 - k) + 1]

\* Hadamard on qubit q.
ApplyH(v, q) ==
    [i \in 1..4 |->
        IF Bit(i - 1, q) = 0
        THEN FxMul(Amp0(v, i - 1, q) + Amp1(v, i - 1, q), InvSqrt2)
        ELSE FxMul(Amp0(v, i - 1, q) - Amp1(v, i - 1, q), InvSqrt2)]

\* Ry(theta) on qubit q, theta = ang * pi/8: [[cos(theta/2), -sin(theta/2)],
\*                                             [sin(theta/2),  cos(theta/2)]].
ApplyRy(v, q, ang) ==
    [i \in 1..4 |->
        IF Bit(i - 1, q) = 0
        THEN FxMul(Amp0(v, i - 1, q), Cos16(ang)) - FxMul(Amp1(v, i - 1, q), Sin16(ang))
        ELSE FxMul(Amp0(v, i - 1, q), Sin16(ang)) + FxMul(Amp1(v, i - 1, q), Cos16(ang))]

\* CNOT with control c and target t.
ApplyCnot(v, c, t) ==
    [i \in 1..4 |-> IF Bit(i - 1, c) = 1 THEN v[Flip(i - 1, t) + 1] ELSE v[i]]

ApplyInstr(v, ins) ==
    CASE ins.gate = "h"    -> ApplyH(v, ins.target[1])
      [] ins.gate = "ry"   -> ApplyRy(v, ins.target[1], ins.angle)
      [] ins.gate = "cnot" -> ApplyCnot(v, ins.target[1], ins.target[2])

RECURSIVE ApplyAll(_, _)
ApplyAll(v, instrs) ==
    IF instrs = <<>> THEN v ELSE ApplyAll(ApplyInstr(v, Head(instrs)), Tail(instrs))

\* The probability result type of circ on the noiseless simulator.
ExactProbabilities(circ) ==
    LET v == ApplyAll(<<Scale, 0, 0, 0>>, circ.instrs)
    IN  <<FxMul(v[1], v[1]), FxMul(v[2], v[2]), FxMul(v[3], v[3]), FxMul(v[4], v[4])>>

\* ---------------------------------------------------------------- device
\* Denominator of the probabilities a task run with n shots reports.
Den(n) == IF n = 0 THEN Scale ELSE n

\* The relative frequencies n shots can give, as counts over n: a device
\* subject to noise can report any of them.
Samples(n) ==
    { d \in [1..4 -> 0..n] : d[1] + d[2] + d[3] + d[4] = n }

\* What task.result().result_types[0].value can be for a task not yet completed.
Outcomes(task) ==
    IF task.shots = 0 THEN { ExactProbabilities(task.circuit) } ELSE Samples(task.shots)

\* device.run(circ, shots=shots): the call as logged, and the handle it creates.
RunCall(circ, n) == [circuit |-> circ, shots |-> n]
NewTask(circ, n) == [circuit |-> circ, shots |-> n, value |-> NoValue]

\* ------------------------------------------------------- post-processing
\* Mutant: the 00 and 01 outcomes taken for the correlated ones.
prob_same_01(res) == [i \in 1..Len(res) |-> res[i][1] + res[i][2]]
prob_same(res) == [i \in 1..Len(res) |-> res[i][1] + res[i][4]]
prob_different(res) == [i \in 1..Len(res) |-> res[i][2] + res[i][3]]
\* np.array(prob_same) - np.array(prob_different), unpacked into the four E's.
Expectations(res) ==
    [i \in 1..Len(res) |-> prob_same(res)[i] - prob_different(res)[i]]
\* Mutant: the minus sign on the third term instead of the second.
chsh_value_sign(E) == E[1] + E[2] - E[3] + E[4]
chsh_value(E) == E[1] - E[2] + E[3] + E[4]

\* Mutant: the bound itself counted as a violation.
ViolatedOrEqual(chsh, den) == chsh >= ClassicalBound * den
\* chsh_value > 2, on numerators over the denominator den.
Violated(chsh, den) == chsh > ClassicalBound * den

Line(t, vals) == [text |-> t, values |-> vals]
\* The lines the verbose branch prints.
Report(E, chsh, den) ==
    << Line("E", E), Line("CHSH inequality", <<chsh>>) >>
    \o (IF Violated(chsh, den)
        THEN << Line("CHSH inequality is violated!", <<>>), Line("Notice", <<>>) >>
        ELSE << Line("CHSH inequality is not violated.", <<>>) >>)

\* Mutant: the statistic computed only inside the verbose branch.
get_chsh_results_verbose_only(res, verb, den) ==
    LET E == Expectations(res)
        chsh == IF verb THEN chsh_value(E) ELSE 0
    IN  [out |-> IF verb THEN Report(E, chsh, den) ELSE <<>>,
         ret |-> <<chsh, res, E[1], E[2], E[3], E[4]>>]

\* Mutant: the tuple the docstring announces (results and three values).
get_chsh_results_docstring(res, verb, den) ==
    LET E == Expectations(res)
        chsh == chsh_value(E)
    IN  [out |-> IF verb THEN Report(E, chsh, den) ELSE <<>>,
         ret |-> <<res, E[1], E[2], E[3]>>]

\* The body of get_chsh_results after the results are retrieved: what it
\* prints and what it returns.
get_chsh_results(res, verb, den) ==
    LET E == Expectations(res)
        chsh == chsh_value(E)
    IN  [out |-> IF verb THEN Report(E, chsh, den) ELSE <<>>,
         ret |-> <<chsh, res, E[1], E[2], E[3], E[4]>>]

\* ------------------------------------------------------------------ init
DefaultArgs ==
    [qubit0 |-> DefaultQubit0, qubit1 |-> DefaultQubit1,
     a |-> DefaultA, a_ |-> DefaultA_, b |-> DefaultB, b_ |-> DefaultB_]

AnyArgs ==
    { x \in [qubit0 : Qubits, qubit1 : Qubits,
             a : 0..MaxAngle, a_ : 0..MaxAngle, b : 0..MaxAngle, b_ : 0..MaxAngle] :
        x.qubit0 # x.qubit1 }

InitWith(A, S) ==
    /\ pc = "start"
    /\ args \in A
    /\ shots \in S
    /\ circuits = <<>>
    /\ basis_calls = <<>>
    /\ run_log = <<>>
    /\ tasks = <<>>
    /\ ret_tasks = NoValue
    /\ call = 0
    /\ verbose = FALSE
    /\ result_log = <<>>
    /\ results = <<>>
    /\ out = <<>>
    /\ ret = NoValue
    /\ prev_ret = NoValue
    /\ prev_out = <<>>
    /\ exc = NoExc

\* The unit tests' setting: default circuit arguments, any shot count.
Init == InitWith({DefaultArgs}, 0..MaxShots)

\* --------------------------------------------------------------- actions
\* Where control goes when device.run / task.result() raises: no try/except
\* in either function, so to the caller.
\* Mutant: the failure swallowed and the loop continued.
AfterRunRaisesSwallowed == "run"
AfterRunRaises == "raised"
AfterResultRaises == "raised"

\* Mutant: the handles returned in reverse order.
TaskHandlesReversed(ts) == [i \in 1..Len(ts) |-> Len(ts) + 1 - i]
\* The handles run_chsh_inequality returns: one per task created, in order.
TaskHandles(ts) == [i \in 1..Len(ts) |-> i]

Create ==
    /\ pc = "start"
    /\ circuits' = create_chsh_inequality_circuits(args.qubit0, args.qubit1,
                                                   args.a, args.a_, args.b, args.b_)
    /\ basis_calls' = BasisCalls(args.a, args.a_, args.b, args.b_)
    /\ pc' = "run"
    /\ UNCHANGED <<args, shots, run_log, tasks, ret_tasks, call, verbose,
                   result_log, results, out, ret, prev_ret, prev_out, exc>>

\* run_chsh_inequality: the list comprehension calls device.run for the next
\* circuit, which returns a handle ...
Submit ==
    /\ pc = "run"
    /\ Len(run_log) < Len(circuits)
    /\ LET circ == circuits[Len(run_log) + 1]
       IN  /\ run_log' = Append(run_log, RunCall(circ, shots))
           /\ tasks' = Append(tasks, NewTask(circ, shots))
    /\ UNCHANGED <<pc, args, shots, circuits, basis_calls, ret_tasks, call, verbose,
                   result_log, results, out, ret, prev_ret, prev_out, exc>>

\* ... or raises, and nothing catches it.
SubmitRaises ==
    /\ pc = "run"
    /\ Len(run_log) < Len(circuits)
    /\ run_log' = Append(run_log, RunCall(circuits[Len(run_log) + 1], shots))
    /\ exc' = Exc("run", Len(run_log) + 1)
    /\ pc' = AfterRunRaises
    /\ UNCHANGED <<args, shots, circuits, basis_calls, tasks, ret_tasks, call, verbose,
                   result_log, results, out, ret, prev_ret, prev_out>>

\* run_chsh_inequality returns the handles, in the order they were created.
RunReturn ==
    /\ pc = "run"
    /\ Len(run_log) = Len(circuits)
    /\ ret_tasks' = TaskHandles(tasks)
    /\ pc' = "submitted"
    /\ UNCHANGED <<args, shots, circuits, basis_calls, run_log, tasks, call, verbose,
                   result_log, results, out, ret, prev_ret, prev_out, exc>>

\* The caller calls get_chsh_results(tasks, verbose) on the returned handles:
\* the first time, or again on the same tasks.
GetStart ==
    /\ pc \in {"submitted", "done"}
    /\ call < MaxCalls
    /\ call' = call + 1
    /\ verbose' \in BOOLEAN
    /\ result_log' = <<>>
    /\ results' = <<>>
    /\ out' = <<>>
    /\ prev_ret' = ret
    /\ prev_out' = out
    /\ ret' = NoValue
    /\ pc' = "retrieve"
    /\ UNCHANGED <<args, shots, circuits, basis_calls, run_log, tasks, ret_tasks, exc>>

\* task.result() of the next task: it completes with one of its possible
\* outcomes, or has completed before and gives the same value again.
Retrieve ==
    /\ pc = "retrieve"
    /\ Len(results) < Len(ret_tasks)
    /\ LET i == ret_tasks[Len(results) + 1]
       IN  \E d \in (IF tasks[i].value = NoValue THEN Outcomes(tasks[i])
                                                ELSE {tasks[i].value}) :
              /\ tasks' = [tasks EXCEPT ![i].value = d]
              /\ results' = Append(results, d)
              /\ result_log' = Append(result_log, i)
    /\ UNCHANGED <<pc, args, shots, circuits, basis_calls, run_log, ret_tasks, call,
                   verbose, out, ret, prev_ret, prev_out, exc>>

\* task.result() of a task that has not completed raises, and nothing catches it.
RetrieveRaises ==
    /\ pc = "retrieve"
    /\ Len(results) < Len(ret_tasks)
    /\ tasks[ret_tasks[Len(results) + 1]].value = NoValue
    /\ result_log' = Append(result_log, ret_tasks[Len(results) + 1])
    /\ exc' = Exc("result", Len(results) + 1)
    /\ pc' = AfterResultRaises
    /\ UNCHANGED <<args, shots, circuits, basis_calls, run_log, tasks, ret_tasks, call,
                   verbose, results, out, ret, prev_ret, prev_out>>

\* With every result retrieved: compute, report if verbose, return.
Finish ==
    /\ pc = "retrieve"
    /\ Len(results) = Len(ret_tasks)
    /\ LET r == get_chsh_results(results, verbose, Den(shots))
       IN  /\ out' = r.out
           /\ ret' = r.ret
    /\ pc' = "done"
    /\ UNCHANGED <<args, shots, circuits, basis_calls, run_log, tasks, ret_tasks, call,
                   verbose, result_log, results, prev_ret, prev_out, exc>>

Next ==
    \/ Create
    \/ Submit
    \/ SubmitRaises
    \/ RunReturn
    \/ GetStart
    \/ Retrieve
    \/ RetrieveRaises
    \/ Finish

Spec == Init /\ [][Next]_vars

\* Any qubits and angles, exact execution.
InitAngles == InitWith(AnyArgs, {0})
SpecAngles == InitAngles /\ [][Next]_vars

\* ================================================================ claims
Returned == pc = "done"
\* The distribution the i-th task passed to get_chsh_results completed with.
Dist(i) == tasks[ret_tasks[i]].value
Said(lines, t) == \E j \in DOMAIN lines : lines[j].text = t
HasRy(circ, q, ang) == \E j \in DOMAIN circ.instrs : circ.instrs[j] = Instr("ry", <<q>>, ang)
RyOn(circ, q) ==
    \E j \in DOMAIN circ.instrs :
        circ.instrs[j].gate = "ry" /\ circ.instrs[j].target = <<q>>

\* C1: create_chsh_inequality_circuits returns exactly four circuits, for
\* every choice of (distinct) qubits and of the angles, in the order (a,b),
\* (a,b'), (a',b), (a',b'): each is the Bell preparation on (qubit0, qubit1),
\* then the rotation of qubit0 by the first angle of its pair when that is
\* non-zero, then no gate, h(qubit1), h(qubit0), h(qubit0) h(qubit1)
\* respectively, with one probability result type.
C1_FourCircuitsInOrder ==
    pc # "start" =>
        LET q0 == args.qubit0
            q1 == args.qubit1
            prep == << Instr("h", <<q0>>, 0), Instr("cnot", <<q0, q1>>, 0) >>
            rot(r) == IF r = 0 THEN <<>> ELSE << Instr("ry", <<q0>>, r) >>
            hq0 == << Instr("h", <<q0>>, 0) >>
            hq1 == << Instr("h", <<q1>>, 0) >>
        IN  /\ Len(circuits) = 4
            /\ basis_calls = << <<args.a, args.b>>, <<args.a, args.b_>>,
                                <<args.a_, args.b>>, <<args.a_, args.b_>> >>
            /\ circuits[1].instrs = prep \o rot(args.a)
            /\ circuits[2].instrs = prep \o rot(args.a) \o hq1
            /\ circuits[3].instrs = prep \o rot(args.a_) \o hq0
            /\ circuits[4].instrs = prep \o rot(args.a_) \o hq0 \o hq1
            /\ \A i \in 1..4 : circuits[i].result_types = <<"probability">>

C1_Witness ==
    /\ pc = "done"
    /\ args.qubit0 = 1 /\ args.qubit1 = 0
    /\ args.a = 3 /\ args.a_ = 1 /\ args.b = 2 /\ args.b_ = 0
    /\ Len(circuits) = 4

\* C2 (as claimed): in each of the four circuits, qubit0 carries a rotation by
\* rotation0 exactly when rotation0 # 0 and qubit1 carries a rotation by
\* rotation1 exactly when rotation1 # 0.
C2_RotatesEachNonZeroQubit ==
    pc # "start" =>
        \A i \in 1..4 :
            LET r0 == basis_calls[i][1]
                r1 == basis_calls[i][2]
            IN  /\ r0 # 0 => HasRy(circuits[i], args.qubit0, r0)
                /\ r0 = 0 => ~RyOn(circuits[i], args.qubit0)
                /\ r1 # 0 => HasRy(circuits[i], args.qubit1, r1)
                /\ r1 = 0 => ~RyOn(circuits[i], args.qubit1)

\* C3: run_chsh_inequality calls device.run once per circuit, in list order,
\* each time with the caller's shots, and returns one handle per circuit in
\* the circuits' order (four handles for the four CHSH circuits).
C3_OneRunPerCircuitInOrder ==
    /\ Len(run_log) <= Len(circuits)
    /\ \A i \in 1..Len(run_log) :
          run_log[i].circuit = circuits[i] /\ run_log[i].shots = shots
    /\ ret_tasks # NoValue =>
          /\ Len(run_log) = Len(circuits)
          /\ Len(ret_tasks) = 4
          /\ \A i \in 1..4 :
                /\ tasks[ret_tasks[i]].circuit = circuits[i]
                /\ tasks[ret_tasks[i]].shots = shots
          /\ \A i, j \in 1..4 : ret_tasks[i] = ret_tasks[j] => i = j

C3_Witness ==
    /\ pc = "submitted"
    /\ shots = 1
    /\ Len(ret_tasks) = 4
    /\ Len(run_log) = 4

C5_ExpectationValues ==
    Returned =>
        \A i \in 1..4 :
            LET d == Dist(i)
                one == Den(shots)
            IN  /\ ret[i + 2] = (d[1] + d[4]) - (d[2] + d[3])
                /\ ((\A k \in 1..4 : d[k] >= 0) /\ d[1] + d[2] + d[3] + d[4] = one)
                      => (-one <= ret[i + 2] /\ ret[i + 2] <= one)

C5_Witness ==
    /\ Returned
    /\ shots = 1
    /\ Dist(1) = <<0, 1, 0, 0>> /\ ret[3] = -1
    /\ Dist(2) = <<0, 0, 0, 1>> /\ ret[4] = 1

\* C6: the statistic returned is E(a,b) - E(a,b') + E(a',b) + E(a',b') of the
\* four expectation values returned, in task order.
C6_Statistic ==
    Returned => ret[1] = ret[3] - ret[4] + ret[5] + ret[6]

C6_Witness ==
    /\ Returned
    /\ shots = 1
    /\ ret[3] = 1 /\ ret[4] = -1 /\ ret[5] = -1 /\ ret[6] = 1
    /\ ret[1] = 2

\* C7: the verbose report says "violated" exactly when the statistic is > 2
\* and "not violated" otherwise; when all four distributions report only the
\* 00 outcome every expectation value is 1, the statistic is exactly 2 and
\* the report says "not violated".
C7_StrictVerdict ==
    (Returned /\ verbose) =>
        LET one == Den(shots)
            said_violated == Said(out, "CHSH inequality is violated!")
            said_not == Said(out, "CHSH inequality is not violated.")
        IN  /\ said_violated <=> ret[1] > 2 * one
            /\ said_not <=> ~(ret[1] > 2 * one)
            /\ (\A i \in 1..4 : Dist(i) = <<one, 0, 0, 0>>) =>
                  /\ \A i \in 3..6 : ret[i] = one
                  /\ ret[1] = 2 * one
                  /\ said_not /\ ~said_violated

C7_Witness ==
    /\ Returned /\ verbose
    /\ \A i \in 1..4 : Dist(i) = <<Den(shots), 0, 0, 0>>
    /\ Said(out, "CHSH inequality is not violated.")

\* C8 (as claimed): with the default arguments and exact execution
\* (shots = 0) the expectation values returned are within 0.01 of the values
\* of maximum violation (1/sqrt 2, -1/sqrt 2, 1/sqrt 2, 1/sqrt 2) and the
\* statistic is within 0.01 of 2 sqrt 2.
Within(x, y, tol) == x - y <= tol /\ y - x <= tol
C8_MaximumViolation ==
    (Returned /\ shots = 0 /\ args = DefaultArgs) =>
        LET tol == Scale \div 100
        IN  /\ Within(ret[1], 4 * InvSqrt2, tol)
            /\ Within(ret[3], InvSqrt2, tol)
            /\ Within(ret[4], -InvSqrt2, tol)
            /\ Within(ret[5], InvSqrt2, tol)
            /\ Within(ret[6], InvSqrt2, tol)

\* C9: get_chsh_results called again on the same tasks returns the same
\* statistic, distributions and expectation values, whatever the verbose
\* flag of either call; the flag decides only whether the report is printed
\* (nothing when it is false).
C9_Idempotent ==
    Returned =>
        /\ call >= 2 => ret = prev_ret
        /\ ~verbose => out = <<>>
        /\ verbose => out # <<>>

C9_Witness ==
    /\ Returned
    /\ call = 2
    /\ shots = 1
    /\ ~verbose /\ out = <<>>
    /\ prev_out # <<>>
    /\ ret = prev_ret /\ ret[1] = 4

\* C10: a failure of device.run for the k-th circuit ends run_chsh_inequality:
\* k calls were made, none later, and no handles are returned; a failure of
\* result() for the k-th task ends get_chsh_results: the results of tasks
\* 1..k were asked for, none later, nothing is printed and nothing returned.
\* Otherwise each task's result is retrieved once, in task order, and the
\* report and the return value exist only after all four were retrieved.
C10_FailuresPropagate ==
    /\ exc.kind = "run" =>
          /\ Len(run_log) = exc.at
          /\ Len(tasks) = exc.at - 1
          /\ ret_tasks = NoValue
          /\ call = 0
    /\ exc.kind = "result" =>
          /\ result_log = [i \in 1..exc.at |-> ret_tasks[i]]
          /\ Len(results) = exc.at - 1
          /\ out = <<>>
          /\ ret = NoValue
    /\ pc \in {"retrieve", "done"} =>
          result_log = [i \in 1..Len(result_log) |-> ret_tasks[i]]
    /\ (out # <<>> \/ ret # NoValue) => result_log = ret_tasks

C10_Witness ==
    /\ exc = Exc("result", 3)
    /\ shots = 1
    /\ Len(results) = 2
    /\ result_log = <<1, 2, 3>>
====
